---- MODULE Spec2Model ----
(***************************************************************************)
(* Client-side authentication state of the AeroNyx node dashboard:         *)
(* the zustand auth store (stores/authStore.ts), the wallet adapters it    *)
(* calls, the API client's request() with its 401 handling (lib/api.ts),   *)
(* the AuthInitializer (app/providers.tsx) and one cache-backed query      *)
(* (useNodes) with the query client's retry policy.  Beside it: the query  *)
(* cache with the hooks and write mutations of the dashboard pages         *)
(* (hooks/useNodes.ts, hooks/useCodes.ts), the registration-code countdown *)
(* of the Add Node modal (components/dashboard/AddNodeModal.tsx) and the   *)
(* dashboard layout's session gate (app/dashboard/layout.tsx).             *)
(*                                                                         *)
(* The browser is single-threaded: every action below is one synchronous   *)
(* run of code between two suspension points (an await, a user event, a    *)
(* server or wallet-extension reply).                                      *)
(***************************************************************************)
EXTENDS Integers, Sequences, FiniteSets, TLC

\* ---------------------------------------------------------------- bounds
\* number of async store calls (connectWallet / login) that may be pending
\* or settled at the same time; a settled slot is reused by the next call
MaxFlows == 1
\* cap on the number of registered 'auth:logout' listeners
MaxListeners == 2

\* ------------------------------------------------------------- constants
NULL == "null"

\* STORAGE_KEYS
API_KEY == "aeronyx_api_key"
WALLET_ADDRESS == "aeronyx_wallet_address"
WALLET_TYPE == "aeronyx_wallet_type"
AuthKeys == {API_KEY, WALLET_ADDRESS, WALLET_TYPE}

\* ERROR_MESSAGES and the literals thrown by the store and the API client
WALLET_NOT_FOUND == "Wallet not detected. Please install a Web3 wallet."
WALLET_CONNECTION_FAILED == "Failed to connect wallet. Please try again."
SIGNATURE_FAILED == "Signature verification failed. Please try again."
SESSION_EXPIRED == "Session expired. Please reconnect your wallet."
WALLET_NOT_CONNECTED == "Wallet not connected"
REQUEST_FAILED == "Request failed"
NETWORK_ERROR == "Network error. Please check your connection."
\* message of the TypeError fetch() rejects with on a transport failure
FAILED_TO_FETCH == "Failed to fetch"
\* message of the Error a wallet extension rejects a signing request with
USER_REJECTED == "User rejected the request."

\* the suffix each adapter appends to WALLET_NOT_FOUND
InstallHint(provider) ==
    CASE provider = "phantom"  -> " Please install Phantom."
      [] provider = "metamask" -> " Please install MetaMask."
      [] provider = "okx"      -> " Please install OKX Wallet."

\* the message of the Error an adapter throws when it finds no wallet
NotFoundMessage(provider) == WALLET_NOT_FOUND \o InstallHint(provider)

\* ----------------------------------------------------------- value sets
Providers == {"phantom", "metamask", "okx"}
WalletTypes == {"SOL", "ETH"}
SolAddress == "So1anaAddr"
EthAddress == "0xAbc"
\* API keys the backend issues
ApiKeys == {"k1", "k2"}
\* sign-in messages the backend issues with a nonce
Messages == {"sign-in-abc123", "sign-in-def456"}
\* the signature a Solana-style signer returns (Uint8Array contents; the
\* first byte needs the padding of the hex encoding)
SolSignatures == {<<10, 255>>}
\* the signature an Ethereum-style signer returns (a hex string, one
\* character per element)
EthSignatures == {<<"0", "x", "a", "1">>}

\* the error kinds of the spec's taxonomy, read off the message thrown
\* (the code throws plain Error objects that differ only in their message)
ErrorKind(message) ==
    CASE message = NULL                     -> "none"
      [] message \in {NotFoundMessage(p) : p \in Providers}
                                            -> "WalletNotFoundError"
      [] message = WALLET_CONNECTION_FAILED -> "WalletConnectionFailedError"
      [] message = SIGNATURE_FAILED         -> "SignatureFailedError"
      [] message = SESSION_EXPIRED          -> "SessionExpiredError"
      [] message = FAILED_TO_FETCH          -> "NetworkError"
      [] message = NETWORK_ERROR            -> "NetworkError"
      [] OTHER                              -> "Error"

\* ----------------------------------------------------------------- state
VARIABLES
    auth,          \* the zustand store: apiKey, walletAddress, walletType,
                   \* walletProvider, isAuthenticated, isLoading, error
    localStorage,  \* the three persisted keys, NULL when absent
    listeners,     \* number of 'auth:logout' listeners on window
    isInitialized, \* AuthInitializer's state: children are rendered
    flows,         \* the async connectWallet / login calls
    query,         \* the useNodes query of the query cache
    page,          \* the dashboard page whose hooks are mounted
    cache,         \* the query cache of the QueryClient, by query key
    server,        \* the backend's nodes and registration codes
    mutation,      \* the write mutation a page started
    now,           \* the browser's clock, in milliseconds
    modal,         \* AddNodeModal with the Countdown of its active code
    layout,        \* DashboardLayout: mounted, isChecking, pending redirect
    landing,       \* LandingPage: mounted, pending redirect
    codesPage,     \* CodesPage: backend codes, fetched list, codeToRevoke
    connect        \* WalletConnect: step, selectedWallet, handleSelectWallet runs

storeVars == <<auth, localStorage, listeners, isInitialized, flows, query>>
cacheVars == <<page, cache, server, mutation>>
timerVars == <<now, modal>>
routeVars == <<layout, landing>>
pageVars == <<codesPage, connect>>
viewVars == <<cacheVars, timerVars, routeVars, pageVars>>
vars == <<storeVars, viewVars>>

\* The wallet objects the browser extensions injected into window are the
\* environment's: each step that reads them gets them as its input win
\* (extensions inject late, so what one step finds the next may not).
Windows == [phantom : BOOLEAN, metamask : BOOLEAN,
            okxSolana : BOOLEAN, okxEthereum : BOOLEAN]

FlowIds == 1..MaxFlows

NoStorage == [k \in AuthKeys |-> NULL]

\* all three keys hold a (truthy) value
AllPresent(storage) == \A k \in AuthKeys : storage[k] # NULL

\* the store as created by create<AuthState>(...)
InitialAuth ==
    [apiKey |-> NULL, walletAddress |-> NULL, walletType |-> NULL,
     walletProvider |-> NULL, isAuthenticated |-> FALSE,
     isLoading |-> FALSE, error |-> NULL]

\* ------------------------------------------------------------ auth store
\* A "world" w is the pair the store's synchronous code reads and writes:
\* [auth |-> the store, localStorage |-> the persisted keys].

\* logout that forgets to reset isAuthenticated
logoutKeepsAuthenticated(w) ==
    [auth |-> [w.auth EXCEPT !.apiKey = NULL, !.walletAddress = NULL,
                             !.walletType = NULL, !.walletProvider = NULL,
                             !.isLoading = FALSE, !.error = NULL],
     localStorage |-> NoStorage]

\* logout that returns early when no API key is persisted
logoutSkipsWhenNoKey(w) ==
    IF w.localStorage[API_KEY] = NULL
    THEN w
    ELSE [auth |-> [w.auth EXCEPT !.apiKey = NULL, !.walletAddress = NULL,
                                  !.walletType = NULL, !.walletProvider = NULL,
                                  !.isAuthenticated = FALSE, !.isLoading = FALSE,
                                  !.error = NULL],
          localStorage |-> NoStorage]

\* useAuthStore.logout
logout(w) ==
    [auth |-> [w.auth EXCEPT !.apiKey = NULL, !.walletAddress = NULL,
                             !.walletType = NULL, !.walletProvider = NULL,
                             !.isAuthenticated = FALSE, !.isLoading = FALSE,
                             !.error = NULL],
     localStorage |-> NoStorage]

\* initialize that does not look at the wallet type
initializeTwoKeys(w) ==
    LET apiKey == w.localStorage[API_KEY]
        walletAddress == w.localStorage[WALLET_ADDRESS]
        walletType == w.localStorage[WALLET_TYPE]
    IN  IF apiKey # NULL /\ walletAddress # NULL
        THEN [w EXCEPT !.auth.apiKey = apiKey,
                       !.auth.walletAddress = walletAddress,
                       !.auth.walletType = walletType,
                       !.auth.isAuthenticated = TRUE]
        ELSE w

\* useAuthStore.initialize, without the listener registration
initialize(w) ==
    LET apiKey == w.localStorage[API_KEY]
        walletAddress == w.localStorage[WALLET_ADDRESS]
        walletType == w.localStorage[WALLET_TYPE]
    IN  IF apiKey # NULL /\ walletAddress # NULL /\ walletType # NULL
        THEN [w EXCEPT !.auth.apiKey = apiKey,
                       !.auth.walletAddress = walletAddress,
                       !.auth.walletType = walletType,
                       !.auth.isAuthenticated = TRUE]
        ELSE w

\* window.dispatchEvent(new CustomEvent('auth:logout')): every registered
\* listener runs get().logout(), synchronously, one after the other
RECURSIVE dispatchLogout(_, _)
dispatchLogout(w, n) ==
    IF n = 0 THEN w ELSE dispatchLogout(logout(w), n - 1)

World == [auth |-> auth, localStorage |-> localStorage]

\* ------------------------------------------------------- wallet adapters
\* An adapter runs until it returns, throws or awaits the extension. Its
\* outcome is a record; "stage" names the extension call it is waiting on.
NoInfo == [address |-> NULL, type |-> NULL, provider |-> NULL]
Return(info) ==
    [kind |-> "return", stage |-> "", info |-> info, message |-> NULL, signature |-> <<>>]
Throw(message) ==
    [kind |-> "throw", stage |-> "", info |-> NoInfo, message |-> message, signature |-> <<>>]
Await(stage) ==
    [kind |-> "await", stage |-> stage, info |-> NoInfo, message |-> NULL, signature |-> <<>>]

\* what the extension answers to connect() / eth_requestAccounts
ConnectReplies(stage) ==
    IF stage = "connect_sol" THEN {"accounts", "reject"}
    ELSE {"accounts", "empty", "reject"}

\* connectPhantom: stage "start" is the call, "connect_sol" the continuation
\* after window.solana.connect() settled with `reply`
connectPhantom(win, stage, reply) ==
    IF stage = "start"
    THEN IF ~win.phantom
         THEN Throw(NotFoundMessage("phantom"))
         ELSE Await("connect_sol")
    ELSE IF reply = "accounts"
         THEN Return([address |-> SolAddress, type |-> "SOL", provider |-> "phantom"])
         ELSE Throw(WALLET_CONNECTION_FAILED)

\* connectMetaMask that requests the accounts without looking for the
\* extension
connectMetaMaskNoDetect(win, stage, reply) ==
    IF stage = "start"
    THEN Await("connect_eth")
    ELSE IF reply = "accounts"
         THEN Return([address |-> EthAddress, type |-> "ETH", provider |-> "metamask"])
         ELSE Throw(WALLET_CONNECTION_FAILED)

\* connectMetaMask: "connect_eth" is the continuation after
\* window.ethereum.request({method: 'eth_requestAccounts'}) settled
connectMetaMask(win, stage, reply) ==
    IF stage = "start"
    THEN IF ~win.metamask
         THEN Throw(NotFoundMessage("metamask"))
         ELSE Await("connect_eth")
    ELSE IF reply = "accounts"
         THEN Return([address |-> EthAddress, type |-> "ETH", provider |-> "metamask"])
         ELSE Throw(WALLET_CONNECTION_FAILED)

\* connectOKX: tries okxwallet.solana, falls through to okxwallet.ethereum,
\* falls through to the final throw
connectOKX(win, stage, reply) ==
    LET notFound == Throw(NotFoundMessage("okx"))
        tryEthereum == IF win.okxEthereum THEN Await("connect_eth") ELSE notFound
    IN  CASE stage = "start" ->
               IF win.okxSolana THEN Await("connect_sol") ELSE tryEthereum
          [] stage = "connect_sol" ->
               IF reply = "accounts"
               THEN Return([address |-> SolAddress, type |-> "SOL", provider |-> "okx"])
               ELSE tryEthereum
          [] stage = "connect_eth" ->
               IF reply = "accounts"
               THEN Return([address |-> EthAddress, type |-> "ETH", provider |-> "okx"])
               ELSE notFound

\* the switch of useAuthStore.connectWallet
connectAdapter(provider, win, stage, reply) ==
    CASE provider = "phantom"  -> connectPhantom(win, stage, reply)
      [] provider = "metamask" -> connectMetaMask(win, stage, reply)
      [] provider = "okx"      -> connectOKX(win, stage, reply)

\* ------------------------------------------------------ signature helpers
HexDigits == <<"0", "1", "2", "3", "4", "5", "6", "7",
               "8", "9", "a", "b", "c", "d", "e", "f">>

\* Number.prototype.toString(16) of a byte
toString16(b) ==
    IF b < 16 THEN <<HexDigits[b + 1]>>
    ELSE <<HexDigits[(b \div 16) + 1], HexDigits[(b % 16) + 1]>>

\* no padding
noPad(s) == s

\* String.prototype.padStart(2, '0')
padStart2(s) == IF Len(s) < 2 THEN <<"0">> \o s ELSE s

\* Array.from(signature).map(b => b.toString(16).padStart(2, '0')).join('')
RECURSIVE toHex(_)
toHex(bytes) ==
    IF bytes = <<>> THEN <<>>
    ELSE padStart2(toString16(Head(bytes))) \o toHex(Tail(bytes))

\* window objects the signature helpers look for
\* (window.solana is the object isPhantom is read from)
solanaSigner(win, provider) ==
    \/ provider = "phantom" /\ win.phantom
    \/ provider = "okx" /\ win.okxSolana

ethereumSigner(win, provider) ==
    \/ provider = "metamask" /\ win.metamask
    \/ provider = "okx" /\ win.okxEthereum

\* what the extension answers to a signing request: a signature, a
\* rejection with an Error, or a rejection with a value that is no Error
SignReplies(type) ==
    [kind : {"signature"},
     signature : IF type = "SOL" THEN SolSignatures ELSE EthSignatures]
    \cup {[kind |-> "rejectError", signature |-> <<>>],
          [kind |-> "rejectOther", signature |-> <<>>]}

\* A rejection of the extension's promise is not caught by the helpers;
\* NotAnError marks a rejection with a value that is not an Error.
NotAnError == "not-an-Error"
rethrow(reply) ==
    Throw(IF reply.kind = "rejectError" THEN USER_REJECTED ELSE NotAnError)

\* signSolanaMessage up to its await: the signer lookup
signSolanaMessage(win, provider) ==
    IF solanaSigner(win, provider) THEN Await("sign") ELSE Throw(SIGNATURE_FAILED)

\* signSolanaMessage after signMessage() settled: the hex encoding
signSolanaMessageSettled(reply) ==
    IF reply.kind = "signature"
    THEN [Return(NoInfo) EXCEPT !.signature = toHex(reply.signature)]
    ELSE rethrow(reply)

\* signEthereumMessage up to its await
signEthereumMessage(win, provider) ==
    IF ethereumSigner(win, provider) THEN Await("sign") ELSE Throw(SIGNATURE_FAILED)

\* signEthereumMessage after personal_sign settled
signEthereumMessageSettled(reply) ==
    IF reply.kind = "signature"
    THEN [Return(NoInfo) EXCEPT !.signature = reply.signature]
    ELSE rethrow(reply)

\* ------------------------------------------------------------ API client
\* ApiClient.getAuthHeaders: the value of the Authorization header, NULL
\* when the header is not set (Content-Type is always set and left out)
getAuthHeaders(storage) ==
    LET apiKey == storage[API_KEY]
    IN  IF apiKey # NULL THEN "Bearer " \o apiKey ELSE NULL

\* the config ApiClient.request hands to fetch: the request and, as its
\* last element, the headers getAuthHeaders() returned; no caller passes
\* headers of its own
fetchConfig(req, storage) == Append(req, getAuthHeaders(storage))
Authorization(req) == req[Len(req)]

\* what fetch() settles with: an HTTP status, or 0 for a transport failure
\* (fetch rejects with a TypeError). A 403 comes with a body that is not
\* JSON, a 500 with the JSON body {error: "Internal server error"}.
Statuses == {200, 401, 403, 500, 0}
HTTP_403 == "HTTP 403: Forbidden"
INTERNAL_ERROR == "Internal server error"

\* the message of the Error ApiClient.request throws, NULL when it returns
requestError(status) ==
    CASE status = 401 -> SESSION_EXPIRED
      [] status = 0   -> FAILED_TO_FETCH
      [] status = 403 -> HTTP_403
      [] status = 500 -> INTERNAL_ERROR
      [] OTHER        -> NULL

\* the constructor of the value ApiClient.request throws: fetch() rejects
\* with a TypeError, which the catch block rethrows as it is; the 401 and
\* the !response.ok branch throw new Error(...)
requestThrown(status) ==
    CASE status = 0                -> [name |-> "TypeError", message |-> requestError(status)]
      [] requestError(status) # NULL -> [name |-> "Error", message |-> requestError(status)]
      [] OTHER                     -> [name |-> NULL, message |-> NULL]

\* request that removes the keys on a 401 but dispatches no event
requestNoDispatch(w, status, nListeners) ==
    IF status = 401 THEN [w EXCEPT !.localStorage = NoStorage] ELSE w

\* request that treats a 403 like a 401
requestClearsOnForbidden(w, status, nListeners) ==
    IF status \in {401, 403}
    THEN dispatchLogout([w EXCEPT !.localStorage = NoStorage], nListeners)
    ELSE w

\* the side effects of ApiClient.request on the world when the response
\* arrives: a 401 removes the three keys and dispatches 'auth:logout'
request(w, status, nListeners) ==
    IF status = 401
    THEN dispatchLogout([w EXCEPT !.localStorage = NoStorage], nListeners)
    ELSE w

\* ----------------------------------------------------------------- flows
\* One slot per async store call. op is the store method and pc the await
\* the call is suspended at. While the call is pending: provider is
\* connectWallet's argument or the walletProvider login read with get(),
\* info is login's argument, wire is the request that awaits its reply,
\* message is the message of the nonce response while the signature is
\* awaited and signed the signature the extension returned. log lists the
\* kinds of the requests the call has issued, in order. Once the call has
\* settled, result is the message of the Error it rejected with and info
\* the WalletInfo connectWallet resolved with.
NoRequest == <<>>
IdleFlow ==
    [op |-> "none", pc |-> "idle", provider |-> NULL, info |-> NoInfo,
     message |-> NULL, signed |-> <<>>, wire |-> NoRequest,
     log |-> <<>>, result |-> NULL]

Pending(f) == flows[f].pc \notin {"idle", "resolved", "rejected"}

\* a new call takes the first slot that holds no pending call
FreeSlot(f) == ~Pending(f) /\ \A g \in FlowIds : g < f => Pending(g)

\* the WalletInfo values the adapters can produce
WalletInfos ==
    {[address |-> SolAddress, type |-> "SOL", provider |-> "phantom"],
     [address |-> EthAddress, type |-> "ETH", provider |-> "metamask"],
     [address |-> SolAddress, type |-> "SOL", provider |-> "okx"],
     [address |-> EthAddress, type |-> "ETH", provider |-> "okx"]}

\* the arguments login is called with: login reads walletInfo.address and
\* walletInfo.type only, so one WalletInfo per wallet type covers its runs
LoginInfos == {info \in WalletInfos : info.provider # "okx"}

\* the promise of the call settles
Resolved(flow, info) ==
    [IdleFlow EXCEPT !.op = flow.op, !.pc = "resolved", !.log = flow.log,
                     !.info = info]
Rejected(flow, thrown) ==
    [IdleFlow EXCEPT !.op = flow.op, !.pc = "rejected", !.log = flow.log,
                     !.result = thrown]

\* the catch block of connectWallet
connectCatch(w, message) ==
    [w EXCEPT !.auth.error = message, !.auth.isLoading = FALSE]

\* a catch block that only resets isLoading
loginCatchKeepsError(w, thrown) ==
    [w EXCEPT !.auth.isLoading = FALSE]

\* the catch block of login
loginCatch(w, thrown) ==
    LET message == IF thrown = NotAnError THEN SIGNATURE_FAILED ELSE thrown
    IN  [w EXCEPT !.auth.error = message, !.auth.isLoading = FALSE]

\* the tail of connectWallet from an adapter outcome r on
connectWalletStep(w, flow, r) ==
    CASE r.kind = "await" ->
           [world |-> w, flow |-> [flow EXCEPT !.pc = r.stage]]
      [] r.kind = "return" ->
           [world |-> [w EXCEPT !.auth.walletProvider = flow.provider],
            flow |-> Resolved(flow, r.info)]
      [] r.kind = "throw" ->
           [world |-> connectCatch(w, r.message),
            flow |-> Rejected(flow, r.message)]

\* the signing branch of login
loginSign(win, flow) ==
    IF flow.info.type = "SOL"
    THEN signSolanaMessage(win, flow.provider)
    ELSE signEthereumMessage(win, flow.provider)

loginSignSettled(flow, reply) ==
    IF flow.info.type = "SOL"
    THEN signSolanaMessageSettled(reply)
    ELSE signEthereumMessageSettled(reply)

\* the requests a login issues
NonceRequest(info) == <<"getNonce", info.address>>
SignRequest(flow, message) == <<"sign", message, flow.provider, flow.info.type>>
LoginRequest(info, signature) == <<"login", info.address, info.type, signature>>

\* the call issues a request and awaits its reply
Issue(flow, pc, req) ==
    [flow EXCEPT !.pc = pc, !.wire = req, !.log = Append(@, req[1])]

\* login that does not persist the wallet type
loginSuccessDropsType(w, info, apiKey) ==
    [auth |-> [w.auth EXCEPT !.apiKey = apiKey,
                             !.walletAddress = info.address,
                             !.walletType = info.type,
                             !.isAuthenticated = TRUE,
                             !.isLoading = FALSE,
                             !.error = NULL],
     localStorage |-> [w.localStorage EXCEPT ![API_KEY] = apiKey,
                                             ![WALLET_ADDRESS] = info.address]]

\* the success tail of login: three setItem calls, then set({...}).
\* The backend answers with the wallet identity it was sent.
loginSuccess(w, info, apiKey) ==
    [auth |-> [w.auth EXCEPT !.apiKey = apiKey,
                             !.walletAddress = info.address,
                             !.walletType = info.type,
                             !.isAuthenticated = TRUE,
                             !.isLoading = FALSE,
                             !.error = NULL],
     localStorage |-> [w.localStorage EXCEPT ![API_KEY] = apiKey,
                                             ![WALLET_ADDRESS] = info.address,
                                             ![WALLET_TYPE] = info.type]]

\* ------------------------------------------------------------ the query
\* QueryClient defaultOptions.queries.retry
\* String.prototype.includes
includes(s, sub) ==
    \E i \in 1..(Len(s) - Len(sub) + 1) :
        SubSeq(s, i, i + Len(sub) - 1) = sub

\* retry that allows one retry more
retryFourTimes(failureCount, message) ==
    IF includes(message, "401") \/ includes(message, "403")
    THEN FALSE
    ELSE failureCount < 4

retry(failureCount, message) ==
    IF includes(message, "401") \/ includes(message, "403")
    THEN FALSE
    ELSE failureCount < 3

\* state: idle, fetching (request in flight), waiting (retry delay),
\* success (data), error (isError, error)
IdleQuery ==
    [state |-> "idle", failureCount |-> 0, error |-> NULL, authorization |-> NULL]


\* ------------------------------------------------------------- query keys
\* An object inside a query key is written as its hash: a property whose
\* value is undefined is left out of it.
UNDEFINED == "undefined"
KeyObject(name, value) ==
    IF value = UNDEFINED THEN "{}" ELSE "{" \o name \o ":" \o value \o "}"

nodeKeys_all == <<"nodes">>
nodeKeys_lists == nodeKeys_all \o <<"list">>
nodeKeys_list(status) == nodeKeys_lists \o <<KeyObject("status", status)>>
nodeKeys_details == nodeKeys_all \o <<"detail">>
nodeKeys_detail(id) == nodeKeys_details \o <<id>>
nodeKeys_stats == nodeKeys_all \o <<"stats">>
nodeKeys_stat(id, days) == nodeKeys_stats \o <<id, KeyObject("days", days)>>
nodeKeys_sessions == nodeKeys_all \o <<"sessions">>
nodeKeys_session(id, filters) == nodeKeys_sessions \o <<id, filters>>

codeKeys_all == <<"codes">>
codeKeys_lists == codeKeys_all \o <<"list">>
codeKeys_list(includeExpired) ==
    codeKeys_lists \o <<KeyObject("includeExpired",
                                  IF includeExpired THEN "true" ELSE "false")>>

\* the nodes and codes of the backend, and the keys the hooks can read
NodeIds == {"n1", "n2"}
OnlineNodes == {"n1"}
Codes == {"c1", "c2"}
NodeStatuses == {UNDEFINED, "online"}
SessionFilters == KeyObject("limit", "10")
QueryKeys ==
    {nodeKeys_list(status) : status \in NodeStatuses}
    \cup {nodeKeys_detail(id) : id \in NodeIds}
    \cup {nodeKeys_stat("n1", "7"), nodeKeys_session("n1", SessionFilters)}
    \cup {codeKeys_list(includeExpired) : includeExpired \in BOOLEAN}

\* ------------------------------------------------------------ query cache
\* A query of the cache: its data (hasData FALSE: undefined), whether it
\* was invalidated since, and the number of its requests in flight.
NoQuery == [hasData |-> FALSE, data |-> {}, isInvalidated |-> FALSE, inFlight |-> 0]

\* partialMatchKey: every element of the filter's key equals the element
\* of the query's key at its position
partialMatchKey(queryKey, filterKey) ==
    /\ Len(filterKey) <= Len(queryKey)
    /\ \A i \in 1..Len(filterKey) : queryKey[i] = filterKey[i]

\* the hooks a page mounts, in render order: the key and refetchOnMount
Hook(key, refetchOnMount) == [key |-> key, refetchOnMount |-> refetchOnMount]
useNodes(status) == Hook(nodeKeys_list(status), FALSE)
useAggregatedStats == useNodes(UNDEFINED)
useNodeDetail(nodeId) == Hook(nodeKeys_detail(nodeId), TRUE)
useNodeStats(nodeId, days) == Hook(nodeKeys_stat(nodeId, days), TRUE)
useNodeSessions(nodeId, filters) == Hook(nodeKeys_session(nodeId, filters), TRUE)
useRegistrationCodes(includeExpired) == Hook(codeKeys_list(includeExpired), TRUE)

Pages == {"dashboard", "nodes", "detail", "codes"}
Hooks(p) ==
    CASE p = "dashboard" -> <<useAggregatedStats, useNodes(UNDEFINED)>>
      [] p = "nodes"     -> <<useNodes(UNDEFINED)>>
      [] p = "detail"    -> <<useNodeDetail("n1"), useNodeStats("n1", "7"),
                              useNodeSessions("n1", SessionFilters)>>
      [] p = "codes"     -> <<useRegistrationCodes(TRUE)>>
      [] OTHER           -> <<>>

\* the number of mounted observers of a key
Observers(p, key) == Cardinality({i \in 1..Len(Hooks(p)) : Hooks(p)[i].key = key})

\* the cache holds a Query object for the key
Exists(c, p, key) ==
    c[key].hasData \/ c[key].inFlight > 0 \/ Observers(p, key) > 0

\* Query.isStale for an observer: invalidated, without data, or older than
\* the hook's staleTime (elapsed)
isStale(q, elapsed) == q.isInvalidated \/ ~q.hasData \/ elapsed

\* shouldFetchOnMount of the observer the hook subscribes
shouldFetchOnMount(q, hook, elapsed) ==
    \/ ~q.hasData
    \/ hook.refetchOnMount /\ isStale(q, elapsed)

\* fetch that issues a request of its own for every caller
fetchAlways(q) == [q EXCEPT !.inFlight = @ + 1]

\* Query.fetch: a request is issued unless one is in flight already
fetch(q) == IF q.inFlight > 0 THEN q ELSE [q EXCEPT !.inFlight = 1]

\* the hooks of a page subscribe one after the other
RECURSIVE mount(_, _, _)
mount(c, hooks, elapsed) ==
    IF hooks = <<>> THEN c
    ELSE LET hook == Head(hooks)
             q == c[hook.key]
             c1 == IF shouldFetchOnMount(q, hook, elapsed)
                   THEN [c EXCEPT ![hook.key] = fetch(q)]
                   ELSE c
         IN  mount(c1, Tail(hooks), elapsed)

\* queryClient.invalidateQueries({queryKey}): every matching query is
\* marked invalidated, and those with observers are fetched again (a
\* request in flight is cancelled and replaced)
invalidateQueries(c, p, filterKey) ==
    [key \in QueryKeys |->
        IF partialMatchKey(key, filterKey) /\ Exists(c, p, key)
        THEN [c[key] EXCEPT !.isInvalidated = TRUE,
                            !.inFlight = IF Observers(p, key) > 0 THEN 1 ELSE @]
        ELSE c[key]]

\* what the backend answers to the query function of a key
queryFnData(srv, key) ==
    CASE key[1] = "codes" -> srv.codes
      [] key[2] = "list" ->
            IF key[3] = KeyObject("status", "online")
            THEN srv.nodes \cap OnlineNodes
            ELSE srv.nodes
      [] OTHER -> {key[3]} \cap srv.nodes

\* onSuccess that invalidates everything under the resource's root key
onSuccessInvalidatesAll(c, p, m) ==
    IF m.kind \in {"deleteNode", "updateNode"}
    THEN invalidateQueries(c, p, nodeKeys_all)
    ELSE invalidateQueries(c, p, codeKeys_all)

\* the write mutations: onSuccess of the hook that ran them
NoMutation == [kind |-> "none", target |-> NULL, state |-> "idle", from |-> "none"]
MutationKinds == {"deleteNode", "updateNode", "generateCode", "revokeCode"}
onSuccess(c, p, m) ==
    CASE m.kind = "deleteNode" -> invalidateQueries(c, p, nodeKeys_lists)
      [] m.kind = "updateNode" ->
            invalidateQueries(invalidateQueries(c, p, nodeKeys_lists),
                              p, nodeKeys_detail(m.target))
      [] m.kind \in {"generateCode", "revokeCode"} ->
            invalidateQueries(c, p, codeKeys_lists)

\* the backend after the mutation
mutationFn(srv, m) ==
    CASE m.kind = "deleteNode"   -> [srv EXCEPT !.nodes = @ \ {m.target}]
      [] m.kind = "updateNode"   -> srv
      [] m.kind = "generateCode" -> [srv EXCEPT !.codes = @ \cup {m.target}]
      [] m.kind = "revokeCode"   -> [srv EXCEPT !.codes = @ \ {m.target}]

InitialServer == [nodes |-> {"n1"}, codes |-> {}]
CacheIdle ==
    /\ page = "none"
    /\ cache = [key \in QueryKeys |-> NoQuery]
    /\ server = InitialServer
    /\ mutation = NoMutation

\* --------------------------------------------------- registration codes
\* Times are milliseconds since the epoch, as Date.getTime() returns them.
\* the delay of the Countdown's setInterval
TICK == 1000
\* the lifetime of a registration code
CODE_LIFETIME == 900000
\* the clock of the model stops here
MaxNow == 4000

\* template literal `${minutes}m ${seconds}s` / `${seconds}s`
Formatted(minutes, seconds) ==
    IF minutes > 0
    THEN ToString(minutes) \o "m " \o ToString(seconds) \o "s"
    ELSE ToString(seconds) \o "s"

\* getCodeTimeRemaining that counts the instant of expiry as not expired
getCodeTimeRemainingStrict(expiresAt, time) ==
    LET diffMs == expiresAt - time
        totalSeconds == diffMs \div 1000
        minutes == totalSeconds \div 60
        seconds == totalSeconds % 60
    IN  IF diffMs < 0
        THEN [isExpired |-> TRUE, totalSeconds |-> 0, minutes |-> 0,
              seconds |-> 0, formatted |-> "Expired"]
        ELSE [isExpired |-> FALSE, totalSeconds |-> totalSeconds,
              minutes |-> minutes, seconds |-> seconds,
              formatted |-> Formatted(minutes, seconds)]

\* getCodeTimeRemaining(expiresAt) called when the clock shows `time`
getCodeTimeRemaining(expiresAt, time) ==
    LET diffMs == expiresAt - time
        totalSeconds == diffMs \div 1000
        minutes == totalSeconds \div 60
        seconds == totalSeconds % 60
    IN  IF diffMs <= 0
        THEN [isExpired |-> TRUE, totalSeconds |-> 0, minutes |-> 0,
              seconds |-> 0, formatted |-> "Expired"]
        ELSE [isExpired |-> FALSE, totalSeconds |-> totalSeconds,
              minutes |-> minutes, seconds |-> seconds,
              formatted |-> Formatted(minutes, seconds)]

\* A nullable value is the empty set (null) or the set of the one value.
Null == {}
Some(x) == {x}
The(S) == CHOOSE x \in S : TRUE

\* AddNodeModal: activeCode is the expires_at of the code shown; timeLeft
\* and interval are the state of the code's Countdown and the time its
\* armed setInterval is due (Null when cleared); expired counts the
\* onExpire calls the Countdown of the active code made; generating holds
\* while a run of handleGenerate is suspended at `await generateCode()`
ClosedModal ==
    [isOpen |-> FALSE, activeCode |-> Null, timeLeft |-> Null,
     interval |-> Null, expired |-> 0, generating |-> FALSE]

\* the Countdown of the code with `expiresAt` mounts at `time`: its first
\* timeLeft, and its effect arms the interval
mountCountdown(m, expiresAt, time) ==
    [m EXCEPT !.timeLeft = Some(getCodeTimeRemaining(expiresAt, time)),
              !.interval = Some(time + TICK),
              !.expired = 0]

\* handleGenerate after generateCode resolved: setActiveCode(code); the
\* Modal renders its children, and so the Countdown, only while isOpen
setActiveCode(m, expiresAt, time) ==
    IF m.isOpen
    THEN mountCountdown([m EXCEPT !.activeCode = Some(expiresAt)], expiresAt, time)
    ELSE [m EXCEPT !.activeCode = Some(expiresAt)]

\* handleExpire that leaves the code on display
handleExpireKeepsCode(m) == m

\* AddNodeModal.handleExpire: setActiveCode(null); the CodeDisplay and
\* its Countdown unmount
handleExpire(m) == [m EXCEPT !.activeCode = Null]

\* the Countdown's interval callback
tick(m, time) ==
    LET remaining == getCodeTimeRemaining(The(m.activeCode), time)
        shown == [m EXCEPT !.timeLeft = Some(remaining)]
    IN  IF remaining.isExpired
        THEN [handleExpire([shown EXCEPT !.expired = @ + 1])
                 EXCEPT !.interval = Null]
        ELSE [shown EXCEPT !.interval = Some(time + TICK)]

TimerIdle == now = 0 /\ modal = ClosedModal

\* ------------------------------------------------------ dashboard layout
\* DashboardLayout: isChecking is its state, deps the isAuthenticated its
\* effect last ran with (Null before the first run), redirect a pending
\* router.replace('/') and issued the isAuthenticated it was issued under;
\* via is Null for a page the browser loaded and, for a page a redirect
\* led to, the isAuthenticated that redirect was issued under
NoLayout ==
    [mounted |-> FALSE, isChecking |-> TRUE, deps |-> Null, redirect |-> FALSE,
     issued |-> Null, via |-> Null]

\* what DashboardLayout returns
render(l) == IF l.isChecking THEN "spinner" ELSE "children"

\* the body of DashboardLayout's effect
layoutEffect(l, isAuthenticated) ==
    IF ~isAuthenticated
    THEN [l EXCEPT !.deps = Some(isAuthenticated), !.redirect = TRUE,
                   !.issued = Some(isAuthenticated)]
    ELSE [l EXCEPT !.deps = Some(isAuthenticated), !.isChecking = FALSE]

\* LandingPage: deps and via as above, redirect a pending
\* router.push('/dashboard')
NoLanding ==
    [mounted |-> FALSE, deps |-> Null, redirect |-> FALSE, issued |-> Null,
     via |-> Null]

\* the body of LandingPage's effect
landingEffect(l, isAuthenticated) ==
    IF isAuthenticated
    THEN [l EXCEPT !.deps = Some(isAuthenticated), !.redirect = TRUE,
                   !.issued = Some(isAuthenticated)]
    ELSE [l EXCEPT !.deps = Some(isAuthenticated)]

LayoutIdle == layout = NoLayout /\ landing = NoLanding

\* ------------------------------------------- the registration codes page
\* when each code of the backend expires
EXPIRES_AT == [c \in Codes |-> IF c = "c1" THEN TICK ELSE 2 * TICK]

\* a RegistrationCode as GET /codes/ lists it at `time`: the backend
\* derives status and is_valid from what happened to the code and its expiry
RegistrationCode(c, fate, time) ==
    [code |-> c,
     status |-> IF fate = "unused" /\ EXPIRES_AT[c] <= time THEN "expired" ELSE fate,
     expires_at |-> EXPIRES_AT[c],
     is_valid |-> fate = "unused" /\ EXPIRES_AT[c] > time]

\* api.getCodes(includeExpired = true): the whole list
getCodes(backend, time) == [c \in Codes |-> RegistrationCode(c, backend[c], time)]

\* CodeRow: const isRevokable = code.status === 'unused' && code.is_valid
isRevokable(code) == code.status = "unused" /\ code.is_valid

\* useRegistrationCodes: (query.data ?? []).filter(
\*   code => code.status === 'unused' && code.is_valid)
validCodes(data) ==
    IF data = Null THEN {}
    ELSE {c \in DOMAIN The(data) : The(data)[c].status = "unused" /\ The(data)[c].is_valid}

\* isCodeUsable at the clock value `time`
isCodeUsable(code, time) ==
    IF code.status # "unused" THEN FALSE
    ELSE IF ~code.is_valid THEN FALSE
    ELSE code.expires_at > time

\* CodesPage mounted, its list not yet fetched, no dialog, no mutation
NoCodesPage ==
    [backend |-> [c \in Codes |-> "unused"], data |-> Null,
     codeToRevoke |-> Null, revoking |-> Null]

\* ------------------------------------------------ the WalletConnect card
\* the runs of handleSelectWallet that can be suspended at once
RunIds == {1, 2}

\* a run of handleSelectWallet: the store call it awaits, and whether
\* Cancel was pressed while it was suspended
NoRun == [call |-> IdleFlow, cancelled |-> FALSE]

\* useState('select'), useState(null)
NoWalletConnect ==
    [step |-> "select", selectedWallet |-> NULL, runs |-> [a \in RunIds |-> NoRun]]

\* walletOptions[].checkAvailable
checkAvailable(wallet, win) ==
    CASE wallet = "phantom"  -> win.phantom
      [] wallet = "metamask" -> win.metamask
      [] wallet = "okx"      -> win.okxSolana \/ win.okxEthereum

\* handleSelectWallet once the awaited store call has run on: the catch
\* sets 'error', the end of the try sets 'success'
stepAfter(step, call) ==
    CASE call.pc = "rejected" -> "error"
      [] call.pc = "resolved" /\ call.op = "login" -> "success"
      [] OTHER -> step

RunPending(a) == connect.runs[a].call.pc \notin {"idle", "resolved", "rejected"}
FreeRun(a) == ~RunPending(a) /\ \A b \in RunIds : b < a => RunPending(b)

PageIdle == codesPage = NoCodesPage /\ connect = NoWalletConnect

\* ------------------------------------------------------------------ Init
\* what process start finds in localStorage: nothing, the session of an
\* earlier run, or such a session with one of its keys lost
StoredSessions ==
    {[k \in AuthKeys |-> IF k \in present
                         THEN CASE k = API_KEY -> "k1"
                                [] k = WALLET_ADDRESS -> EthAddress
                                [] k = WALLET_TYPE -> "ETH"
                         ELSE NULL] :
        present \in {S \in SUBSET AuthKeys : Cardinality(S) # 1}}

Init ==
    /\ auth = InitialAuth
    /\ localStorage \in StoredSessions
    /\ listeners = 0
    /\ isInitialized = FALSE
    /\ flows = [f \in FlowIds |-> IdleFlow]
    /\ query = IdleQuery
    /\ CacheIdle
    /\ TimerIdle
    /\ LayoutIdle
    /\ PageIdle

\* ---------------------------------------------------------------- inputs
\* the windows that differ in what the adapters of `provider` read
WindowsOf(provider) ==
    CASE provider = "phantom" ->
           {w \in Windows : ~w.metamask /\ ~w.okxSolana /\ ~w.okxEthereum}
      [] provider = "metamask" ->
           {w \in Windows : ~w.phantom /\ ~w.okxSolana /\ ~w.okxEthereum}
      [] provider = "okx" ->
           {w \in Windows : ~w.phantom /\ ~w.metamask}
      [] OTHER -> {w \in Windows : ~w.phantom /\ ~w.metamask /\ ~w.okxSolana /\ ~w.okxEthereum}

\* what the backend answers to getNonce and to login
NonceReplies ==
    [status : {200}, message : Messages]
    \cup [status : Statuses \ {200}, message : {NULL}]
SubmitReplies ==
    [status : {200}, apiKey : ApiKeys]
    \cup [status : Statuses \ {200}, apiKey : {NULL}]

\* --------------------------------------------------------------- actions
\* AuthInitializer's effect: initialize(), then setIsInitialized(true).
\* initialize() reads the three keys and registers one more listener.
Initialize ==
    /\ listeners < MaxListeners
    /\ LET w == initialize(World)
       IN  /\ auth' = w.auth
           /\ localStorage' = w.localStorage
    /\ listeners' = listeners + 1
    /\ isInitialized' = TRUE
    /\ UNCHANGED <<viewVars, flows, query>>

\* Sidebar.handleLogout: logout(), then router.push('/'), which leaves the
\* dashboard layout (where the Sidebar lives) once the navigation is done
Logout ==
    /\ isInitialized
    /\ LET w == logout(World)
       IN  /\ auth' = w.auth
           /\ localStorage' = w.localStorage
    /\ layout' = IF layout.mounted
                 THEN [layout EXCEPT !.redirect = TRUE,
                                     !.issued = Some(logout(World).auth.isAuthenticated)]
                 ELSE layout
    /\ UNCHANGED <<cacheVars, timerVars, pageVars, landing, listeners, isInitialized, flows, query>>

\* useAuthStore.clearError
ClearError ==
    /\ isInitialized
    /\ auth' = [auth EXCEPT !.error = NULL]
    /\ UNCHANGED <<viewVars, localStorage, listeners, isInitialized, flows, query>>

\* connectWallet(provider) up to its first await (or its rejection)
connectWallet(w, provider, win) ==
    LET w1 == [w EXCEPT !.auth.isLoading = TRUE, !.auth.error = NULL]
        flow == [IdleFlow EXCEPT !.op = "connectWallet", !.provider = provider]
    IN  connectWalletStep(w1, flow, connectAdapter(provider, win, "start", ""))

ConnectWalletCall(f, provider, win) ==
    /\ isInitialized
    /\ FreeSlot(f)
    /\ LET next == connectWallet(World, provider, win)
       IN  /\ auth' = next.world.auth
           /\ localStorage' = next.world.localStorage
           /\ flows' = [flows EXCEPT ![f] = next.flow]
    /\ UNCHANGED <<viewVars, listeners, isInitialized, query>>

\* the extension settles the pending connect() / eth_requestAccounts
ConnectWalletReply(f, reply, win) ==
    /\ flows[f].op = "connectWallet"
    /\ flows[f].pc \in {"connect_sol", "connect_eth"}
    /\ reply \in ConnectReplies(flows[f].pc)
    /\ LET r == connectAdapter(flows[f].provider, win, flows[f].pc, reply)
           next == connectWalletStep(World, flows[f], r)
       IN  /\ auth' = next.world.auth
           /\ localStorage' = next.world.localStorage
           /\ flows' = [flows EXCEPT ![f] = next.flow]
    /\ UNCHANGED <<viewVars, listeners, isInitialized, query>>

\* login without the provider guard
loginNoGuard(w, info) ==
    LET walletProvider == w.auth.walletProvider
        flow == [IdleFlow EXCEPT !.op = "login", !.info = info,
                                 !.provider = walletProvider]
    IN  [world |-> [w EXCEPT !.auth.isLoading = TRUE, !.auth.error = NULL],
         flow |-> Issue(flow, "nonce", fetchConfig(NonceRequest(info), w.localStorage))]

\* login(walletInfo) up to its first await: the provider guard, then
\* set({isLoading, error}) and api.getNonce(walletInfo.address)
login(w, info) ==
    LET walletProvider == w.auth.walletProvider
        flow == [IdleFlow EXCEPT !.op = "login", !.info = info,
                                 !.provider = walletProvider]
    IN  IF walletProvider = NULL
        THEN [world |-> w, flow |-> Rejected(flow, WALLET_NOT_CONNECTED)]
        ELSE [world |-> [w EXCEPT !.auth.isLoading = TRUE, !.auth.error = NULL],
              flow |-> Issue(flow, "nonce", fetchConfig(NonceRequest(info), w.localStorage))]

LoginCall(f, info) ==
    /\ isInitialized
    /\ FreeSlot(f)
    /\ LET next == login(World, info)
       IN  /\ auth' = next.world.auth
           /\ localStorage' = next.world.localStorage
           /\ flows' = [flows EXCEPT ![f] = next.flow]
    /\ UNCHANGED <<viewVars, listeners, isInitialized, query>>

\* login that reads the store's walletProvider when it signs
loginAfterNonceLateProvider(w, win, flow, reply, nListeners) ==
    LET w1 == request(w, reply.status, nListeners)
        late == [flow EXCEPT !.provider = w.auth.walletProvider]
        r == loginSign(win, late)
    IN  IF requestError(reply.status) # NULL
        THEN [world |-> loginCatch(w1, requestError(reply.status)),
              flow |-> Rejected(flow, requestError(reply.status))]
        ELSE IF r.kind = "throw"
        THEN [world |-> loginCatch(w1, r.message),
              flow |-> Rejected(flow, r.message)]
        ELSE [world |-> w1,
              flow |-> [Issue(late, "sign", SignRequest(late, reply.message))
                          EXCEPT !.message = reply.message]]

\* login after api.getNonce settled: on a response, the signing helper is
\* called with nonceResponse.message and runs up to its await
loginAfterNonce(w, win, flow, reply, nListeners) ==
    LET w1 == request(w, reply.status, nListeners)
        r == loginSign(win, flow)
    IN  IF requestError(reply.status) # NULL
        THEN [world |-> loginCatch(w1, requestError(reply.status)),
              flow |-> Rejected(flow, requestError(reply.status))]
        ELSE IF r.kind = "throw"
        THEN [world |-> loginCatch(w1, r.message),
              flow |-> Rejected(flow, r.message)]
        ELSE [world |-> w1,
              flow |-> [Issue(flow, "sign", SignRequest(flow, reply.message))
                          EXCEPT !.message = reply.message]]

LoginNonceReply(f, reply, win) ==
    /\ flows[f].op = "login"
    /\ flows[f].pc = "nonce"
    /\ LET next == loginAfterNonce(World, win, flows[f], reply, listeners)
       IN  /\ auth' = next.world.auth
           /\ localStorage' = next.world.localStorage
           /\ flows' = [flows EXCEPT ![f] = next.flow]
    /\ UNCHANGED <<viewVars, listeners, isInitialized, query>>

\* login after the signing helper settled: api.login is called with the
\* signature the helper returned
loginAfterSign(w, flow, reply) ==
    LET r == loginSignSettled(flow, reply)
    IN  IF r.kind = "throw"
        THEN [world |-> loginCatch(w, r.message),
              flow |-> Rejected(flow, r.message)]
        ELSE [world |-> w,
              flow |-> [Issue(flow, "submit",
                                fetchConfig(LoginRequest(flow.info, r.signature),
                                            w.localStorage))
                          EXCEPT !.message = NULL, !.signed = reply.signature]]

LoginSignReply(f, reply) ==
    /\ flows[f].op = "login"
    /\ flows[f].pc = "sign"
    /\ reply \in SignReplies(flows[f].info.type)
    /\ LET next == loginAfterSign(World, flows[f], reply)
       IN  /\ auth' = next.world.auth
           /\ localStorage' = next.world.localStorage
           /\ flows' = [flows EXCEPT ![f] = next.flow]
    /\ UNCHANGED <<viewVars, listeners, isInitialized, query>>

\* login after api.login settled
loginAfterSubmit(w, flow, reply, nListeners) ==
    LET w1 == request(w, reply.status, nListeners)
    IN  IF requestError(reply.status) # NULL
        THEN [world |-> loginCatch(w1, requestError(reply.status)),
              flow |-> Rejected(flow, requestError(reply.status))]
        ELSE [world |-> loginSuccess(w1, flow.info, reply.apiKey),
              flow |-> Resolved(flow, NoInfo)]

LoginSubmitReply(f, reply) ==
    /\ flows[f].op = "login"
    /\ flows[f].pc = "submit"
    /\ LET next == loginAfterSubmit(World, flows[f], reply, listeners)
       IN  /\ auth' = next.world.auth
           /\ localStorage' = next.world.localStorage
           /\ flows' = [flows EXCEPT ![f] = next.flow]
    /\ UNCHANGED <<viewVars, listeners, isInitialized, query>>

\* useNodes: the query starts a fetch (mount, refetch) and api.getNodes
\* is issued
QueryFetch ==
    /\ isInitialized
    /\ query.state \in {"idle", "success", "error"}
    /\ query' = [query EXCEPT !.state = "fetching", !.failureCount = 0,
                              !.authorization = getAuthHeaders(localStorage)]
    /\ UNCHANGED <<viewVars, auth, localStorage, listeners, isInitialized, flows>>

\* the query's state after api.getNodes settled
queryAfterReply(q, status) ==
    LET message == requestError(status)
        settled == [q EXCEPT !.authorization = NULL]
    IN  IF message = NULL
        THEN [settled EXCEPT !.state = "success", !.error = NULL, !.failureCount = 0]
        ELSE IF retry(q.failureCount, message)
        THEN [settled EXCEPT !.state = "waiting", !.failureCount = @ + 1]
        ELSE [settled EXCEPT !.state = "error", !.failureCount = @ + 1,
                             !.error = message]

QueryReply(status) ==
    /\ query.state = "fetching"
    /\ LET w == request(World, status, listeners)
       IN  /\ auth' = w.auth
           /\ localStorage' = w.localStorage
    /\ query' = queryAfterReply(query, status)
    /\ UNCHANGED <<viewVars, listeners, isInitialized, flows>>

\* the retry delay elapsed: the query function runs again
QueryRetry ==
    /\ query.state = "waiting"
    /\ query' = [query EXCEPT !.state = "fetching",
                              !.authorization = getAuthHeaders(localStorage)]
    /\ UNCHANGED <<viewVars, auth, localStorage, listeners, isInitialized, flows>>


\* ----------------------------------------------------- query cache actions
\* the router shows another dashboard page: the hooks of the old page
\* unsubscribe, those of the new page subscribe; elapsed tells whether the
\* cached data is older than the hooks' staleTime
Navigate(p, elapsed) ==
    /\ p # page
    /\ page' = p
    /\ cache' = mount(cache, Hooks(p), elapsed)
    /\ UNCHANGED <<storeVars, timerVars, routeVars, pageVars, server, mutation>>

\* a request of the query function settles: with the backend's data, or,
\* for a node the backend does not know, with its 404 (failures of the
\* transport and their retries are the subject of SpecApi)
fetchSettled(q, srv, key) ==
    IF key[2] = "list" \/ queryFnData(srv, key) # {}
    THEN [hasData |-> TRUE, data |-> queryFnData(srv, key),
          isInvalidated |-> FALSE, inFlight |-> q.inFlight - 1]
    ELSE [q EXCEPT !.inFlight = @ - 1]

FetchReply(key) ==
    /\ cache[key].inFlight > 0
    /\ cache' = [cache EXCEPT ![key] = fetchSettled(@, server, key)]
    /\ UNCHANGED <<storeVars, timerVars, routeVars, pageVars, page, server, mutation>>

\* gcTime elapsed for a query without observers
CollectGarbage(key) ==
    /\ cache[key].hasData
    /\ cache[key].inFlight = 0
    /\ Observers(page, key) = 0
    /\ cache' = [cache EXCEPT ![key] = NoQuery]
    /\ UNCHANGED <<storeVars, timerVars, routeVars, pageVars, page, server, mutation>>

\* the mutations a page offers
Offers(p, srv) ==
    CASE p \in {"dashboard", "nodes"} ->
            {<<"deleteNode", id>> : id \in srv.nodes}
            \cup (IF p = "dashboard"
                  THEN {<<"generateCode", c>> : c \in Codes \ srv.codes}
                  ELSE {})
      [] p = "detail" ->
            {<<kind, id>> : kind \in {"deleteNode", "updateNode"},
                            id \in {"n1"} \cap srv.nodes}
      [] p = "codes" ->
            {<<"generateCode", c>> : c \in Codes \ srv.codes}
            \cup {<<"revokeCode", c>> : c \in srv.codes}
      [] OTHER -> {}

\* mutateAsync(variables): the request of the mutation is issued
MutationStart(kind, target) ==
    /\ mutation.state # "pending"
    /\ <<kind, target>> \in Offers(page, server)
    /\ mutation' = [kind |-> kind, target |-> target, state |-> "pending",
                    from |-> page]
    /\ UNCHANGED <<storeVars, timerVars, routeVars, pageVars, page, cache, server>>

\* the mutation settles: on success the backend has applied it, onSuccess
\* of the hook runs, and NodeDetailPage.handleDelete pushes the nodes page
MutationReply(ok, elapsed) ==
    /\ mutation.state = "pending"
    /\ IF ok
       THEN LET c1 == onSuccess(cache, page, mutation)
                leaves == /\ mutation.kind = "deleteNode"
                          /\ mutation.from = "detail"
                          /\ page # "nodes"
            IN  /\ server' = mutationFn(server, mutation)
                /\ mutation' = [mutation EXCEPT !.state = "success", !.from = "none"]
                /\ page' = IF leaves THEN "nodes" ELSE page
                /\ cache' = IF leaves THEN mount(c1, Hooks("nodes"), elapsed) ELSE c1
       ELSE /\ mutation' = [mutation EXCEPT !.state = "error", !.from = "none"]
            /\ UNCHANGED <<page, cache, server>>
    /\ UNCHANGED <<storeVars, timerVars, routeVars, pageVars, pageVars>>

\* the store's operations on behalf of call slot f
StoreCall(f) ==
    \/ \E provider \in Providers :
          \E win \in WindowsOf(provider) : ConnectWalletCall(f, provider, win)
    \/ \E reply \in {"accounts", "empty", "reject"} :
          \E win \in WindowsOf(flows[f].provider) : ConnectWalletReply(f, reply, win)
    \/ \E info \in LoginInfos : LoginCall(f, info)
    \/ \E reply \in NonceReplies :
          \E win \in WindowsOf(flows[f].provider) : LoginNonceReply(f, reply, win)
    \/ \E reply \in SignReplies("SOL") \cup SignReplies("ETH") : LoginSignReply(f, reply)
    \/ \E reply \in SubmitReplies : LoginSubmitReply(f, reply)

\* the useNodes query
Query ==
    \/ QueryFetch
    \/ \E status \in Statuses : QueryReply(status)
    \/ QueryRetry

\* The auth store under up to MaxFlows overlapping connectWallet / login
\* calls; every 401 it sees arrives on a request of login.
Next ==
    \/ Initialize
    \/ Logout
    \/ ClearError
    \/ \E f \in FlowIds : StoreCall(f)

Spec == Init /\ [][Next]_vars

\* ------------------------------------------------------ countdown actions
\* what is left of a code's lifetime when generateCode's reply arrives
Lifetimes == {0, 500, 1250, 2000, CODE_LIFETIME}
\* the steps of the clock
Delays == {250, TICK}

\* the dashboard page opens the modal: a code that is active is shown
\* with its Countdown
OpenModal ==
    /\ ~modal.isOpen
    /\ modal' = IF modal.activeCode = Null
                THEN [modal EXCEPT !.isOpen = TRUE]
                ELSE mountCountdown([modal EXCEPT !.isOpen = TRUE],
                                    The(modal.activeCode), now)
    /\ UNCHANGED <<storeVars, cacheVars, now, routeVars, pageVars>>

\* onClose: the effect on isOpen resets activeCode, the Countdown
\* unmounts and its cleanup clears the interval
CloseModal ==
    /\ modal.isOpen
    /\ modal' = [ClosedModal EXCEPT !.generating = modal.generating]
    /\ UNCHANGED <<storeVars, cacheVars, now, routeVars, pageVars>>

\* the Generate button: AddNodeModal.handleGenerate up to its await,
\* POST /codes/generate/ is sent
handleGenerate ==
    /\ modal.isOpen
    /\ modal.activeCode = Null
    /\ ~modal.generating
    /\ modal' = [modal EXCEPT !.generating = TRUE]
    /\ UNCHANGED <<storeVars, cacheVars, now, routeVars, pageVars>>

\* generateCode settles: on a code handleGenerate goes on with
\* setActiveCode(code), on an error its catch only logs
GenerateReply(ok, lifetime) ==
    /\ modal.generating
    /\ modal' = IF ok
                THEN setActiveCode([modal EXCEPT !.generating = FALSE],
                                   now + lifetime, now)
                ELSE [modal EXCEPT !.generating = FALSE]
    /\ UNCHANGED <<storeVars, cacheVars, now, routeVars, pageVars>>

\* AddNodeModal renders again: handleExpire is a new function, so the
\* Countdown's effect is cleaned up (clearInterval) and runs again
\* (setInterval)
ParentRerender ==
    /\ modal.isOpen
    /\ modal.activeCode # Null
    /\ modal' = [modal EXCEPT !.interval = Some(now + TICK)]
    /\ UNCHANGED <<storeVars, cacheVars, now, routeVars, pageVars>>

\* the interval is due: the browser runs the Countdown's callback
Tick ==
    /\ modal.activeCode # Null
    /\ modal.interval # Null
    /\ now >= The(modal.interval)
    /\ modal' = tick(modal, now)
    /\ UNCHANGED <<storeVars, cacheVars, now, routeVars, pageVars>>

\* time passes
Advance(delay) ==
    /\ now + delay <= MaxNow
    /\ now' = now + delay
    /\ UNCHANGED <<storeVars, cacheVars, modal, routeVars, pageVars>>

\* ------------------------------------------------------- layout actions
\* the browser loads a /dashboard route: once AuthInitializer renders its
\* children, DashboardLayout mounts and renders with isChecking true
DashboardLayoutMountEarly ==
    /\ ~layout.mounted
    /\ ~landing.mounted
    /\ layout' = [NoLayout EXCEPT !.mounted = TRUE]
    /\ UNCHANGED <<storeVars, cacheVars, timerVars, pageVars, landing>>

DashboardLayoutMount ==
    /\ isInitialized
    /\ ~layout.mounted
    /\ ~landing.mounted
    /\ layout' = [NoLayout EXCEPT !.mounted = TRUE]
    /\ UNCHANGED <<storeVars, cacheVars, timerVars, pageVars, landing>>

\* DashboardLayout's effect runs: after the first render, and after a
\* render with another isAuthenticated
DashboardLayoutEffect ==
    /\ layout.mounted
    /\ layout.deps # Some(auth.isAuthenticated)
    /\ layout' = layoutEffect(layout, auth.isAuthenticated)
    /\ UNCHANGED <<storeVars, cacheVars, timerVars, pageVars, landing>>

\* router.replace('/') took effect: the landing page replaces the layout
NavigationComplete ==
    /\ layout.mounted
    /\ layout.redirect
    /\ layout' = NoLayout
    /\ landing' = [NoLanding EXCEPT !.mounted = TRUE, !.via = layout.issued]
    /\ UNCHANGED <<storeVars, cacheVars, timerVars, pageVars>>

\* the browser loads /: once AuthInitializer renders its children,
\* LandingPage mounts
LandingPageMount ==
    /\ isInitialized
    /\ ~layout.mounted
    /\ ~landing.mounted
    /\ landing' = [NoLanding EXCEPT !.mounted = TRUE]
    /\ UNCHANGED <<storeVars, cacheVars, timerVars, pageVars, layout>>

\* LandingPage's effect runs: after the first render, and after a render
\* with another isAuthenticated
LandingPageEffect ==
    /\ landing.mounted
    /\ landing.deps # Some(auth.isAuthenticated)
    /\ landing' = landingEffect(landing, auth.isAuthenticated)
    /\ UNCHANGED <<storeVars, cacheVars, timerVars, pageVars, layout>>

\* router.push('/dashboard') took effect: the layout replaces the landing
\* page
LandingNavigationComplete ==
    /\ landing.mounted
    /\ landing.redirect
    /\ landing' = NoLanding
    /\ layout' = [NoLayout EXCEPT !.mounted = TRUE, !.via = landing.issued]
    /\ UNCHANGED <<storeVars, cacheVars, timerVars, pageVars>>

\* --------------------------------------------------- WalletConnect actions
\* handleSelectWallet after connectWallet settled: on a walletInfo,
\* setStep('signing') and login(walletInfo) up to its first await
afterConnect(step, connected) ==
    IF connected.flow.pc = "resolved"
    THEN LET next == login(connected.world, connected.flow.info)
         IN  [world |-> next.world, flow |-> next.flow,
              step |-> stepAfter("signing", next.flow)]
    ELSE [world |-> connected.world, flow |-> connected.flow,
          step |-> stepAfter(step, connected.flow)]

\* a wallet button of the 'select' step: handleSelectWallet up to the
\* await inside connectWallet
handleSelectWallet(a, wallet, win) ==
    /\ isInitialized
    /\ connect.step = "select"
    /\ checkAvailable(wallet, win)
    /\ FreeRun(a)
    /\ LET next == connectWallet([World EXCEPT !.auth.error = NULL], wallet, win)
       IN  /\ auth' = next.world.auth
           /\ localStorage' = next.world.localStorage
           /\ connect' = [connect EXCEPT
                  !.selectedWallet = wallet,
                  !.step = stepAfter("connecting", next.flow),
                  !.runs[a] = [call |-> next.flow, cancelled |-> FALSE]]
    /\ UNCHANGED <<cacheVars, timerVars, routeVars, codesPage,
                   listeners, isInitialized, flows, query>>

\* Cancel of the connecting / signing step and Try Again of the error
\* step: handleRetry
handleRetry ==
    /\ connect.step \in {"connecting", "signing", "error"}
    /\ auth' = [auth EXCEPT !.error = NULL]
    /\ connect' = [connect EXCEPT
           !.step = "select",
           !.selectedWallet = NULL,
           !.runs = [a \in RunIds |->
                       [@[a] EXCEPT !.cancelled = @ \/ RunPending(a)]]]
    /\ UNCHANGED <<cacheVars, timerVars, routeVars, codesPage,
                   localStorage, listeners, isInitialized, flows, query>>

\* the extension settles connect() / eth_requestAccounts of run a:
\* connectWallet runs on and handleSelectWallet after it
RunConnectReply(a, reply, win) ==
    /\ connect.runs[a].call.op = "connectWallet"
    /\ connect.runs[a].call.pc \in {"connect_sol", "connect_eth"}
    /\ reply \in ConnectReplies(connect.runs[a].call.pc)
    /\ LET call == connect.runs[a].call
           r == connectAdapter(call.provider, win, call.pc, reply)
           next == afterConnect(connect.step, connectWalletStep(World, call, r))
       IN  /\ auth' = next.world.auth
           /\ localStorage' = next.world.localStorage
           /\ connect' = [connect EXCEPT !.step = next.step,
                                         !.runs[a].call = next.flow]
    /\ UNCHANGED <<cacheVars, timerVars, routeVars, codesPage,
                   listeners, isInitialized, flows, query>>

\* a reply to the login of run a: login runs on from its await and
\* handleSelectWallet after it
RunLoginReply(a, next) ==
    /\ auth' = next.world.auth
    /\ localStorage' = next.world.localStorage
    /\ connect' = [connect EXCEPT !.step = stepAfter(@, next.flow),
                                  !.runs[a].call = next.flow]
    /\ UNCHANGED <<cacheVars, timerVars, routeVars, codesPage,
                   listeners, isInitialized, flows, query>>

RunNonceReply(a, reply, win) ==
    /\ connect.runs[a].call.op = "login"
    /\ connect.runs[a].call.pc = "nonce"
    /\ RunLoginReply(a, loginAfterNonce(World, win, connect.runs[a].call, reply, listeners))

RunSignReply(a, reply) ==
    /\ connect.runs[a].call.op = "login"
    /\ connect.runs[a].call.pc = "sign"
    /\ reply \in SignReplies(connect.runs[a].call.info.type)
    /\ RunLoginReply(a, loginAfterSign(World, connect.runs[a].call, reply))

RunSubmitReply(a, reply) ==
    /\ connect.runs[a].call.op = "login"
    /\ connect.runs[a].call.pc = "submit"
    /\ RunLoginReply(a, loginAfterSubmit(World, connect.runs[a].call, reply, listeners))

\* --------------------------------------------------- codes page actions
\* the codes list query answers: the first fetch, a poll of refetchInterval
\* or the refetch that follows an invalidation
CodesFetched ==
    /\ codesPage' = [codesPage EXCEPT !.data = Some(getCodes(codesPage.backend, now))]
    /\ UNCHANGED <<storeVars, cacheVars, timerVars, routeVars, connect>>

\* a node binds with the code on its server
CodeUsed(c) ==
    /\ codesPage.backend[c] = "unused"
    /\ EXPIRES_AT[c] > now
    /\ codesPage' = [codesPage EXCEPT !.backend[c] = "used"]
    /\ UNCHANGED <<storeVars, cacheVars, timerVars, routeVars, connect>>

\* CodeRow's Revoke button, rendered only when isRevokable:
\* onRevoke(code) is setCodeToRevoke(code) and opens the ConfirmDialog
onRevoke(c) ==
    /\ codesPage.data # Null
    /\ codesPage.codeToRevoke = Null
    /\ isRevokable(The(codesPage.data)[c])
    /\ codesPage' = [codesPage EXCEPT !.codeToRevoke = Some(The(codesPage.data)[c])]
    /\ UNCHANGED <<storeVars, cacheVars, timerVars, routeVars, connect>>

\* ConfirmDialog's Cancel (disabled while isRevoking): setCodeToRevoke(null)
onClose ==
    /\ codesPage.codeToRevoke # Null
    /\ codesPage.revoking = Null
    /\ codesPage' = [codesPage EXCEPT !.codeToRevoke = Null]
    /\ UNCHANGED <<storeVars, cacheVars, timerVars, routeVars, connect>>

\* ConfirmDialog's Revoke (disabled while isRevoking): CodesPage.handleRevoke
\* up to its await, the DELETE request for codeToRevoke.code is sent
handleRevoke ==
    /\ codesPage.codeToRevoke # Null
    /\ codesPage.revoking = Null
    /\ codesPage' = [codesPage EXCEPT !.revoking = Some(The(codesPage.codeToRevoke).code)]
    /\ UNCHANGED <<storeVars, cacheVars, timerVars, routeVars, connect>>

\* the DELETE answers: on success useRevokeCode.onSuccess invalidates the
\* code lists (their refetch answers in CodesFetched) and handleRevoke goes
\* on to setCodeToRevoke(null); on failure the catch only logs
RevokeReply(ok) ==
    /\ codesPage.revoking # Null
    /\ LET c == The(codesPage.revoking)
       IN  /\ ok => codesPage.backend[c] = "unused"
           /\ codesPage' = [codesPage EXCEPT
                  !.revoking = Null,
                  !.codeToRevoke = IF ok THEN Null ELSE @,
                  !.backend[c] = IF ok THEN "revoked" ELSE @]
    /\ UNCHANGED <<storeVars, cacheVars, timerVars, routeVars, connect>>

\* The auth store beside the data-fetching hook: one call slot and the
\* useNodes query, whose requests may be answered with a 401 at any time.
NextApi ==
    \/ Initialize
    \/ Logout
    \/ ClearError
    \/ StoreCall(1)
    \/ Query

SpecApi == Init /\ [][NextApi]_vars

\* The useNodes query alone, with the scheduling the browser provides:
\* every request settles (a response or a transport failure) and every
\* retry timer fires.
NextQuery ==
    \/ Initialize
    \/ Query

SpecQuery ==
    /\ Init
    /\ [][NextQuery]_vars
    /\ WF_vars(\E status \in Statuses : QueryReply(status))
    /\ WF_vars(QueryRetry)


\* The node pages of the dashboard over the query cache: pages mount and
\* unmount their hooks, requests settle, pages delete and update nodes.
NodePages == {"dashboard", "nodes", "detail"}
NodeMutations == {"deleteNode", "updateNode"}
StoreIdle ==
    /\ auth = InitialAuth
    /\ localStorage = NoStorage
    /\ listeners = 0
    /\ isInitialized = FALSE
    /\ flows = [f \in FlowIds |-> IdleFlow]
    /\ query = IdleQuery

InitCache == StoreIdle /\ CacheIdle /\ TimerIdle /\ LayoutIdle /\ PageIdle

NextCache ==
    \/ \E p \in NodePages, elapsed \in BOOLEAN : Navigate(p, elapsed)
    \/ \E key \in QueryKeys : FetchReply(key)
    \/ \E key \in QueryKeys : CollectGarbage(key)
    \/ \E kind \in NodeMutations, target \in NodeIds : MutationStart(kind, target)
    \/ \E ok \in BOOLEAN, elapsed \in BOOLEAN : MutationReply(ok, elapsed)

SpecCache == InitCache /\ [][NextCache]_vars

\* The write mutations over any cache the hooks can have filled: every key
\* is cached or not, on any page, and the pages run their mutations.
CachedQuery(srv, key) ==
    [hasData |-> TRUE, data |-> queryFnData(srv, key),
     isInvalidated |-> FALSE, inFlight |-> 0]
FullServer == [nodes |-> NodeIds, codes |-> {"c1"}]

InitInvalidate ==
    /\ StoreIdle
    /\ TimerIdle
    /\ LayoutIdle
    /\ PageIdle
    /\ page \in Pages
    /\ server = FullServer
    /\ mutation = NoMutation
    /\ \E cached \in SUBSET QueryKeys :
          cache = [key \in QueryKeys |->
                      IF key \in cached THEN CachedQuery(server, key) ELSE NoQuery]

NextInvalidate ==
    \/ \E kind \in MutationKinds, target \in NodeIds \cup Codes :
          MutationStart(kind, target)
    \/ \E ok \in BOOLEAN, elapsed \in BOOLEAN : MutationReply(ok, elapsed)

SpecInvalidate == InitInvalidate /\ [][NextInvalidate]_vars

\* The Add Node modal and the Countdown of its code, against the clock.
InitCountdown == StoreIdle /\ CacheIdle /\ TimerIdle /\ LayoutIdle /\ PageIdle

NextCountdown ==
    \/ OpenModal
    \/ CloseModal
    \/ handleGenerate
    \/ \E ok \in BOOLEAN, lifetime \in Lifetimes : GenerateReply(ok, lifetime)
    \/ ParentRerender
    \/ Tick
    \/ \E delay \in Delays : Advance(delay)

SpecCountdown == InitCountdown /\ [][NextCountdown]_vars

\* The dashboard layout over the auth store: the session is hydrated,
\* ended by logout or by a 401 answer to the useNodes query.
NextLayout ==
    \/ Initialize
    \/ Logout
    \/ Query
    \/ DashboardLayoutMount
    \/ DashboardLayoutEffect
    \/ NavigationComplete

SpecLayout == Init /\ [][NextLayout]_vars

\* The two routes over the auth store: the session is hydrated, made by a
\* login on the landing page, ended by the Sidebar's logout.
NextNavigation ==
    \/ Initialize
    \/ (layout.mounted /\ render(layout) = "children" /\ Logout)
    \/ StoreCall(1)
    \/ DashboardLayoutMount
    \/ DashboardLayoutEffect
    \/ NavigationComplete
    \/ LandingPageMount
    \/ LandingPageEffect
    \/ LandingNavigationComplete

SpecNavigation == Init /\ [][NextNavigation]_vars

\* The WalletConnect card of the landing page over the auth store: wallets
\* are selected, cancelled and selected again while the extensions and
\* the backend answer.
NextConnect ==
    \/ Initialize
    \/ \E a \in RunIds, wallet \in Providers :
          \E win \in WindowsOf(wallet) : handleSelectWallet(a, wallet, win)
    \/ handleRetry
    \/ \E a \in RunIds, reply \in {"accounts", "empty", "reject"} :
          \E win \in WindowsOf(connect.runs[a].call.provider) :
             RunConnectReply(a, reply, win)
    \/ \E a \in RunIds, reply \in NonceReplies :
          \E win \in WindowsOf(connect.runs[a].call.provider)
                        \cup WindowsOf(auth.walletProvider) :
             RunNonceReply(a, reply, win)
    \/ \E a \in RunIds, reply \in SignReplies("SOL") \cup SignReplies("ETH") :
          RunSignReply(a, reply)
    \/ \E a \in RunIds, reply \in SubmitReplies : RunSubmitReply(a, reply)

SpecConnect == InitCache /\ [][NextConnect]_vars

\* The registration codes page: its list is fetched and polled while codes
\* are used and expire, and codes are revoked through the ConfirmDialog.
NextCodes ==
    \/ CodesFetched
    \/ \E c \in Codes : CodeUsed(c)
    \/ \E c \in Codes : onRevoke(c)
    \/ onClose
    \/ handleRevoke
    \/ \E ok \in BOOLEAN : RevokeReply(ok)
    \/ \E delay \in Delays : Advance(delay)

SpecCodes == InitCountdown /\ [][NextCodes]_vars

\* ================================================================ claims

\* a login call resolves / a login call rejects in this step
LoginResolves(f) ==
    flows[f].op = "login" /\ flows[f].pc = "submit" /\ flows'[f].pc = "resolved"

SessionFields(a) == <<a.apiKey, a.walletAddress, a.walletType>>

\* C1: in every reachable state isAuthenticated is true if and only if
\* apiKey, walletAddress and walletType are all non-null.
C1_AuthenticatedIffIdentity ==
    auth.isAuthenticated <=>
        (auth.apiKey # NULL /\ auth.walletAddress # NULL /\ auth.walletType # NULL)

\* a login resolved and the store holds the session it was given
C1_Witness ==
    /\ auth.isAuthenticated
    /\ auth.apiKey = "k2"
    /\ \E f \in FlowIds : flows[f].op = "login" /\ flows[f].pc = "resolved"

\* C2: right after a login call resolves, isAuthenticated is true and all
\* three identity keys are persisted; right after logout returns, none of
\* the three keys is persisted and isAuthenticated is false.
C2_LoginPersistsLogoutClears ==
    [][ /\ \A f \in FlowIds :
              LoginResolves(f) =>
                  /\ auth'.isAuthenticated
                  /\ AllPresent(localStorage')
        /\ Logout =>
              /\ ~auth'.isAuthenticated
              /\ localStorage' = NoStorage ]_vars

\* a login resolved: the store is authenticated and the keys are stored
C2_Witness ==
    /\ \E f \in FlowIds : flows[f].op = "login" /\ flows[f].pc = "resolved"
    /\ auth.isAuthenticated
    /\ AllPresent(localStorage)
    /\ localStorage[API_KEY] = auth.apiKey

\* a request of the API client is answered with HTTP 401 in this step:
\* api.getNodes of the hook, or api.getNonce / api.login of call slot f
Hook401 == QueryReply(401)
Nonce401(f) ==
    \E win \in WindowsOf(flows[f].provider) :
        LoginNonceReply(f, [status |-> 401, message |-> NULL], win)
Submit401(f) == LoginSubmitReply(f, [status |-> 401, apiKey |-> NULL])

C4_LoginNeedsProvider ==
    [][ \A f \in FlowIds, info \in LoginInfos :
          (auth.walletProvider = NULL /\ LoginCall(f, info)) =>
              /\ flows'[f].pc = "rejected"
              /\ flows'[f].result = WALLET_NOT_CONNECTED
              /\ flows'[f].log = <<>>
              /\ flows'[f].wire = NoRequest
              /\ UNCHANGED <<auth, localStorage>> ]_vars

\* a login was rejected by the guard and issued no request
C4_Witness ==
    /\ \E f \in FlowIds :
          /\ flows[f].op = "login"
          /\ flows[f].pc = "rejected"
          /\ flows[f].result = WALLET_NOT_CONNECTED
          /\ flows[f].log = <<>>
    /\ auth.walletProvider = NULL

\* the injected object connectWallet(provider) looks for is absent
Absent(provider, win) ==
    CASE provider = "phantom"  -> ~win.phantom
      [] provider = "metamask" -> ~win.metamask
      [] provider = "okx"      -> ~win.okxSolana /\ ~win.okxEthereum

\* the AuthSession of the store together with the selected provider
AuthState(a) ==
    <<a.apiKey, a.walletAddress, a.walletType, a.isAuthenticated,
      a.walletProvider>>

\* C5: for every provider P, connectWallet(P) called while the injected
\* wallet object of P is absent rejects with WalletNotFoundError and leaves
\* the auth state (API key, wallet address, wallet type, isAuthenticated,
\* selected provider, and the persisted keys) as it was before the call.
\* Stated of every reachable state in which the call can be made.
C5_AbsentWalletFrame ==
    (isInitialized /\ \E f \in FlowIds : FreeSlot(f)) =>
        \A provider \in Providers :
           \A win \in WindowsOf(provider) :
              Absent(provider, win) =>
                 LET next == connectWallet(World, provider, win)
                 IN  /\ next.flow.pc = "rejected"
                     /\ ErrorKind(next.flow.result) = "WalletNotFoundError"
                     /\ AuthState(next.world.auth) = AuthState(auth)
                     /\ next.world.localStorage = localStorage

\* connectWallet('phantom') was rejected for a missing extension while a
\* session was active, and the session is still there
C5_Witness ==
    /\ \E f \in FlowIds :
          /\ flows[f].op = "connectWallet"
          /\ flows[f].pc = "rejected"
          /\ flows[f].result = NotFoundMessage("phantom")
          /\ flows[f].log = <<>>
    /\ auth.isAuthenticated
    /\ auth.error = NotFoundMessage("phantom")
    /\ AllPresent(localStorage)

\* C6: for every provider, connectWallet fails with
\* WalletConnectionFailedError, not WalletNotFoundError, when the extension
\* is present but the account request is rejected or throws.
C6_RejectedIsConnectionFailed ==
    [][ \A f \in FlowIds :
          \A win \in WindowsOf(flows[f].provider) :
             ( /\ ConnectWalletReply(f, "reject", win)
               /\ flows'[f].pc = "rejected" ) =>
                 ErrorKind(flows'[f].result) = "WalletConnectionFailedError" ]_vars

\* the bytes a hex string stands for (a dangling digit yields no byte)
HexValue(c) == CHOOSE v \in 0..15 : HexDigits[v + 1] = c
RECURSIVE fromHex(_)
fromHex(s) ==
    IF Len(s) = 0 THEN <<>>
    ELSE IF Len(s) = 1 THEN <<-1>>
    ELSE <<16 * HexValue(s[1]) + HexValue(s[2])>> \o fromHex(SubSeq(s, 3, Len(s)))

\* the signature a login request carries, as the wallet produced it
SubmittedSignature(flow) ==
    IF flow.wire[3] = "SOL" THEN fromHex(flow.wire[4]) ELSE flow.wire[4]

LoginSteps == <<"getNonce", "sign", "login">>

\* C7: within one login flow the nonce request, the wallet signature and
\* the login submit are issued in this order, each once and only after the
\* previous one completed successfully; the message handed to the wallet
\* is the message of that flow's nonce response, and the signature
\* submitted is the signature the wallet produced.
C7_LoginSequence ==
    [][ \A f \in FlowIds :
          /\ flows'[f].op = "login" =>
                /\ flows'[f].log = SubSeq(LoginSteps, 1, Len(flows'[f].log))
                /\ flows'[f].pc = "nonce" => flows'[f].log = SubSeq(LoginSteps, 1, 1)
                /\ flows'[f].pc = "sign" => flows'[f].log = SubSeq(LoginSteps, 1, 2)
                /\ flows'[f].pc \in {"submit", "resolved"} => flows'[f].log = LoginSteps
          /\ (flows'[f].pc = "sign" /\ flows[f].pc # "sign") =>
                /\ flows[f].pc = "nonce"
                /\ \E reply \in NonceReplies :
                      /\ reply.status = 200
                      /\ \E win \in WindowsOf(flows[f].provider) :
                            LoginNonceReply(f, reply, win)
                      /\ flows'[f].wire[1] = "sign"
                      /\ flows'[f].wire[2] = reply.message
          /\ (flows'[f].pc = "submit" /\ flows[f].pc # "submit") =>
                /\ flows[f].pc = "sign"
                /\ \E reply \in SignReplies(flows[f].info.type) :
                      /\ reply.kind = "signature"
                      /\ LoginSignReply(f, reply)
                      /\ flows'[f].wire[1] = "login"
                      /\ SubmittedSignature(flows'[f]) = reply.signature
          /\ (flows'[f].pc = "resolved" /\ flows'[f].op = "login"
                 /\ flows[f].pc # "resolved") =>
                flows[f].pc = "submit" ]_vars

\* a Solana login is awaiting the answer to its submit, which carries the
\* hex form of the bytes the wallet signed with
C7_Witness ==
    \E f \in FlowIds :
        /\ flows[f].op = "login"
        /\ flows[f].pc = "submit"
        /\ flows[f].log = LoginSteps
        /\ flows[f].info.type = "SOL"
        /\ flows[f].signed \in SolSignatures
        /\ fromHex(flows[f].wire[4]) = flows[f].signed

\* a step of login slot f in which the nonce request, the signing step or
\* the login submit fails
LoginStepFails(f) ==
    \/ /\ flows[f].pc = "nonce"
       /\ \E reply \in NonceReplies :
             \E win \in WindowsOf(flows[f].provider) :
                /\ LoginNonceReply(f, reply, win)
                /\ \/ reply.status # 200
                   \/ loginSign(win, flows[f]).kind = "throw"
    \/ /\ flows[f].pc = "sign"
       /\ \E reply \in SignReplies(flows[f].info.type) :
             /\ reply.kind # "signature"
             /\ LoginSignReply(f, reply)
    \/ /\ flows[f].pc = "submit"
       /\ \E reply \in SubmitReplies :
             /\ reply.status # 200
             /\ LoginSubmitReply(f, reply)

\* C8: when the nonce request, the signing step or the login submit of a
\* login fails while the store is unauthenticated, login rejects, the store
\* stays unauthenticated with error set to a non-null message, and none of
\* the three keys is written to persisted storage.
C8_LoginFailure ==
    [][ \A f \in FlowIds :
          ( /\ ~auth.isAuthenticated
            /\ flows[f].op = "login"
            /\ flows'[f] # flows[f] ) =>
              \/ /\ flows'[f].pc = "rejected"
                 /\ flows'[f].result # NULL
                 /\ ~auth'.isAuthenticated
                 /\ SessionFields(auth') = <<NULL, NULL, NULL>>
                 /\ auth'.error # NULL
                 /\ ~auth'.isLoading
                 /\ \A k \in AuthKeys : localStorage'[k] \in {localStorage[k], NULL}
              \/ ~LoginStepFails(f) ]_vars

\* a login that had issued its submit was rejected: the store shows the
\* error and holds no session, storage holds no key
C8_Witness ==
    /\ \E f \in FlowIds :
          /\ flows[f].op = "login"
          /\ flows[f].pc = "rejected"
          /\ flows[f].log = LoginSteps
          /\ flows[f].result = INTERNAL_ERROR
    /\ auth.error = INTERNAL_ERROR
    /\ ~auth.isAuthenticated
    /\ auth.walletProvider # NULL
    /\ localStorage = NoStorage

\* C9: initialize() is one-shot: a call after the first changes neither the
\* store nor persisted storage and registers no additional listener.
C9_InitializeOneShot ==
    [][ (listeners >= 1 /\ Initialize) =>
            /\ auth' = auth
            /\ localStorage' = localStorage
            /\ listeners' = listeners ]_vars

\* C10: initialize() leaves the store authenticated, with exactly the
\* stored values, if and only if all three persisted keys are present;
\* otherwise the store is unauthenticated with the three fields null; in
\* neither case is persisted storage written.
C10_InitializeHydrates ==
    [][ Initialize =>
          /\ localStorage' = localStorage
          /\ auth'.isAuthenticated <=> AllPresent(localStorage)
          /\ AllPresent(localStorage) =>
                SessionFields(auth') = <<localStorage[API_KEY],
                                         localStorage[WALLET_ADDRESS],
                                         localStorage[WALLET_TYPE]>>
          /\ ~AllPresent(localStorage) =>
                SessionFields(auth') = <<NULL, NULL, NULL>> ]_vars

\* the first initialize() found the three keys and restored the session
C10_Witness ==
    /\ listeners = 1
    /\ auth.isAuthenticated
    /\ SessionFields(auth) = <<"k1", EthAddress, "ETH">>
    /\ AllPresent(localStorage)
    /\ auth.walletProvider = NULL
    /\ \A f \in FlowIds : flows[f].op = "none"

\* C11 (as stated): no API client operation, whatever status it handles,
\* writes or removes a persisted auth key itself: with the listeners of the
\* logout signal left aside, request() leaves persisted storage as it was.
C11_ClientLeavesStorage ==
    \A status \in Statuses :
        request(World, status, 0).localStorage = localStorage

\* the persisted keys or the in-memory session differ after the step
AuthChanged ==
    \/ localStorage' # localStorage
    \/ SessionFields(auth') # SessionFields(auth)
    \/ auth'.isAuthenticated # auth.isAuthenticated

\* C11 (amended): the persisted keys and the in-memory session change only
\* in initialize, login, logout, and in the API client's handling of a 401
\* response. The client itself touches nothing but persisted storage, and
\* that only by removing the three keys on a 401: it never writes a key,
\* and for every other status it leaves storage as it was.
C11_AuthWriters ==
    [][ /\ AuthChanged =>
              \/ Initialize
              \/ Logout
              \/ \E f \in FlowIds : LoginResolves(f)
              \/ Hook401
              \/ \E f \in FlowIds : Nonce401(f) \/ Submit401(f)
        /\ \A status \in Statuses :
              LET own == request(World, status, 0)
              IN  /\ own.auth = auth
                  /\ own.localStorage =
                        IF status = 401 THEN NoStorage ELSE localStorage ]_vars

\* a login met a 401 on its nonce request: the keys are gone and the store
\* shows the session-expired error
C11_Witness ==
    /\ \E f \in FlowIds :
          /\ flows[f].op = "login"
          /\ flows[f].pc = "rejected"
          /\ flows[f].log = <<"getNonce">>
          /\ flows[f].result = SESSION_EXPIRED
    /\ auth.error = SESSION_EXPIRED
    /\ localStorage = NoStorage
    /\ query.state = "success"

\* C12: every API request other than getNonce and login carries an
\* Authorization bearer header with the API key persisted when the request
\* is issued, and getNonce and login requests carry no Authorization header
\* even when an API key is persisted.
C12_BearerHeader ==
    [][ /\ (QueryFetch \/ QueryRetry) =>
              (localStorage[API_KEY] # NULL =>
                   query'.authorization = "Bearer " \o localStorage[API_KEY])
        /\ \A f \in FlowIds :
              (flows'[f].pc \in {"nonce", "submit"} /\ flows'[f] # flows[f]) =>
                  Authorization(flows'[f].wire) = NULL ]_vars

\* C13: after a delete-node mutation resolved successfully, a page that
\* reads the node list gets data fetched after the delete, without the
\* deleted id, also when no list query was mounted while the delete ran.
\* Stated leniently: data still holding the deleted id is served only while
\* a request for the list is in flight.
C13_ListAfterDelete ==
    \A status \in NodeStatuses :
        LET key == nodeKeys_list(status)
        IN  ( /\ mutation.kind = "deleteNode"
              /\ mutation.state = "success"
              /\ Observers(page, key) > 0
              /\ cache[key].hasData
              /\ mutation.target \in cache[key].data ) =>
                  cache[key].inFlight > 0

Resource(kind) == IF kind \in {"deleteNode", "updateNode"} THEN "nodes" ELSE "codes"
Affected(m) ==
    {key \in QueryKeys :
        /\ Exists(cache, page, key)
        /\ \/ key[1] = Resource(m.kind) /\ key[2] = "list"
           \/ m.kind = "updateNode" /\ key = <<"nodes", "detail", m.target>>}

\* C14: a write mutation that completes successfully invalidates every
\* cached list entry of its own resource, under every filter value, plus
\* the detail entry of the updated node for updateNode, and no other entry;
\* a mutation that fails invalidates nothing.
C14_InvalidatesExactly ==
    [][ \A ok \in BOOLEAN, elapsed \in BOOLEAN :
          MutationReply(ok, elapsed) =>
             IF ok
             THEN \A key \in QueryKeys :
                     IF key \in Affected(mutation)
                     THEN /\ cache'[key].isInvalidated
                          /\ Observers(page, key) > 0 => cache'[key].inFlight = 1
                     ELSE /\ cache'[key].isInvalidated = cache[key].isInvalidated
                          /\ cache'[key].hasData = cache[key].hasData
                          /\ cache'[key].data = cache[key].data
             ELSE cache' = cache ]_vars

\* updateNode for n1 succeeded: both list entries and the detail entry of
\* n1 are invalidated; the detail of n2, the stats of n1 and the code list
\* are cached and not invalidated
C14_Witness ==
    /\ mutation.kind = "updateNode"
    /\ mutation.state = "success"
    /\ \A status \in NodeStatuses : cache[nodeKeys_list(status)].isInvalidated
    /\ cache[nodeKeys_detail("n1")].isInvalidated
    /\ \A key \in {nodeKeys_detail("n2"), nodeKeys_stat("n1", "7"),
                   codeKeys_list(TRUE)} :
          cache[key].hasData /\ ~cache[key].isInvalidated

\* C16: a query whose request was answered with a 401 is never retried
\* automatically: that one request is the only one sent, and the hook
\* reports the error right after it.
C16_UnauthorizedNotRetried ==
    [][QueryReply(401) => query'.state = "error"]_vars

\* C17: a failing query stops: it sends the first attempt and at most
\* three retries, and then settles as an error (isError) with a non-null
\* error; a query whose request is in flight always settles.
Settled == query.state \in {"success", "error"}

C17_FailingQuerySettles ==
    /\ [](/\ query.state \in {"fetching", "waiting"} => query.failureCount <= 3
          /\ query.state = "error"
                => query.error # NULL /\ query.failureCount \in 1..4)
    /\ (query.state = "fetching" ~> Settled)

C17_Witness ==
    /\ query.state = "error"
    /\ query.failureCount = 4
    /\ query.error = INTERNAL_ERROR


\* C18: getCodeTimeRemaining depends on expires_at and the clock only; it
\* reports isExpired with totalSeconds 0 exactly when the clock is at or
\* past expires_at, and otherwise not expired with the whole seconds left.
\* A code living fifteen minutes is not expired at 14m59s and is expired
\* from 15m0s on.
ExpiryInputs ==
    {now + d : d \in {-TICK, -1, 0, 1, TICK - 1, TICK, TICK + 1, 61 * TICK}}
        \cup modal.activeCode

C18_TimeRemaining ==
    /\ \A expiresAt \in ExpiryInputs :
          LET r == getCodeTimeRemaining(expiresAt, now)
          IN  /\ r.isExpired <=> now >= expiresAt
              /\ r.isExpired => r.totalSeconds = 0
              /\ ~r.isExpired =>
                    /\ r.totalSeconds * 1000 <= expiresAt - now
                    /\ expiresAt - now < (r.totalSeconds + 1) * 1000
    /\ LET created == now
           expiresAt == created + CODE_LIFETIME
       IN  /\ ~getCodeTimeRemaining(expiresAt, expiresAt - 1000).isExpired
           /\ \A late \in {0, 1, 1000} :
                 getCodeTimeRemaining(expiresAt, expiresAt + late).isExpired

\* the Countdown's tick showed a code with less than a second left
C18_Witness ==
    /\ modal.activeCode # Null
    /\ now >= TICK
    /\ modal.interval = Some(now + TICK)
    /\ now < The(modal.activeCode)
    /\ modal.timeLeft = Some(getCodeTimeRemaining(The(modal.activeCode), now))
    /\ The(modal.timeLeft).totalSeconds = 0
    /\ ~The(modal.timeLeft).isExpired

\* C19: the Countdown of a code calls onExpire exactly once: never before
\* the code expired, once on the first tick that observes the expiry, and
\* never again, however often the parent renders.
C19_ExpireOnce ==
    [][/\ modal'.expired <= 1
       /\ modal'.expired > modal.expired
             => /\ modal.activeCode # Null
                /\ now >= The(modal.activeCode)
                /\ modal.expired = 0
       /\ (modal.activeCode # Null /\ Tick /\ now >= The(modal.activeCode))
             => modal'.expired = 1]_vars

\* the code on display expired and a tick called onExpire, which took the
\* code off display
C19_Witness ==
    /\ modal.isOpen
    /\ modal.expired = 1
    /\ modal.activeCode = Null
    /\ modal.interval = Null
    /\ now > TICK


\* C20: the children of the dashboard layout are rendered only while the
\* auth store is authenticated: never for a visitor without a session, and
\* no longer once logout or a 401 made the store unauthenticated.
ChildrenRendered == layout.mounted /\ render(layout) = "children"

C20_ChildrenNeedSession == ChildrenRendered => auth.isAuthenticated


\* C21: every failed API call surfaces as exactly one of three error kinds
\* fixed by its cause: NetworkError for a transport failure,
\* SessionExpiredError for a 401, ApiError (with the body's error/detail)
\* for any other non-2xx response.
CauseKind(status) ==
    CASE status = 0   -> "NetworkError"
      [] status = 401 -> "SessionExpiredError"
      [] OTHER        -> "ApiError"

C21_ErrorKinds ==
    [][ \A status \in Statuses :
          (QueryReply(status) /\ query'.state # "success") =>
              requestThrown(status).name = CauseKind(status) ]_vars


\* C22: logout is idempotent: after a logout trigger (the Sidebar's
\* Disconnect or the 401 signal of a request) the store and the persisted
\* storage are as one logout() leaves them, and a second trigger of either
\* kind, in either order, changes neither.
C22_LogoutIdempotent ==
    [][ (Logout \/ QueryReply(401)) =>
           LET once == [auth |-> auth', localStorage |-> localStorage']
           IN  /\ once = logout(World)
               /\ logout(once) = once
               /\ request(once, 401, listeners') = once
               /\ logout(request(World, 401, listeners)) = once
               /\ request(logout(World), 401, listeners) = once ]_vars

\* every request of a fetch was answered with a 401: the logout signal
\* was dispatched four times and the store is as one logout leaves it
C22_Witness ==
    /\ query.state = "error"
    /\ query.error = SESSION_EXPIRED
    /\ query.failureCount = 4
    /\ listeners >= 1
    /\ auth = InitialAuth
    /\ localStorage = NoStorage


\* C23: navigation between the landing page and the dashboard never loops:
\* the landing page redirects only when the store is authenticated, the
\* dashboard layout only when it is not; a page a redirect led to issues
\* no redirect back while isAuthenticated is what the redirecting effect
\* saw; and a user whose three credentials are persisted and who loads a
\* dashboard route is not redirected to the landing page.
C23_NoRedirectLoop ==
    [][ /\ (landing'.redirect /\ ~landing.redirect) => auth'.isAuthenticated
        /\ (layout'.redirect /\ ~layout.redirect) => ~auth'.isAuthenticated
        /\ (layout.mounted /\ layout.via = Some(auth.isAuthenticated)
               /\ layout' # layout /\ DashboardLayoutEffect)
              => ~(layout'.redirect /\ ~layout.redirect)
        /\ (landing.mounted /\ landing.via = Some(auth.isAuthenticated)
               /\ landing' # landing /\ LandingPageEffect)
              => ~(landing'.redirect /\ ~landing.redirect)
        /\ (layout.mounted /\ layout.via = Null /\ layout.deps = Null
               /\ AllPresent(localStorage) /\ DashboardLayoutEffect)
              => ~layout'.redirect /\ ~layout'.isChecking ]_vars

\* the landing page's redirect of a user who logged in on it led to the
\* dashboard, whose effect ran and rendered the children
C23_Witness ==
    /\ layout.mounted
    /\ layout.via = Some(TRUE)
    /\ layout.deps = Some(TRUE)
    /\ ~layout.redirect
    /\ ~layout.isChecking
    /\ \E f \in FlowIds : flows[f].op = "login" /\ flows[f].pc = "resolved"

\* C24: a revoke request is only ever sent for a code that is unused and
\* valid in the most recently fetched list at the moment it is sent, also
\* when a poll refreshed the list while the confirmation dialog was open
C24_RevokeOnlyRevokable ==
    [][ handleRevoke =>
          isRevokable(The(codesPage.data)[The(codesPage.codeToRevoke).code]) ]_vars

\* C25: validCodes holds the fetched codes that are unused and not expired:
\* it never holds a code whose expires_at is at or before the clock, and
\* it agrees with isCodeUsable
C25_ValidCodesUsable ==
    \A c \in Codes :
        c \in validCodes(codesPage.data)
            <=> (codesPage.data # Null /\ isCodeUsable(The(codesPage.data)[c], now))

\* C26: isLoading is true only while a connectWallet or login call is in
\* flight: whenever every such call has resolved or rejected, it is false
C26_LoadingOnlyInFlight ==
    auth.isLoading =>
        \E f \in FlowIds : flows[f].pc \notin {"idle", "resolved", "rejected"}

\* C27: after Cancel in the connecting or signing step the cancelled
\* attempt has no further effect: it issues no nonce, signature or login
\* request, cannot authenticate the store, and the step stays 'select'
\* until a wallet is picked again
C27_CancelStopsAttempt ==
    [][ /\ \A a \in RunIds :
              (connect.runs[a].cancelled /\ connect'.runs[a].cancelled
                  /\ connect'.runs[a].call # connect.runs[a].call) =>
                 /\ connect'.runs[a].call.log = connect.runs[a].call.log
                 /\ auth'.isAuthenticated => auth.isAuthenticated
        /\ (connect.step = "select" /\ connect'.step # "select") =>
              connect'.selectedWallet # NULL ]_vars

\* C28: in every login that reaches the signing step, the extension asked
\* to sign is the one connectWallet used to obtain the walletInfo being
\* logged in, also when two connect flows overlap
C28_SignsWithConnectedWallet ==
    \A a \in RunIds :
        (connect.runs[a].call.op = "login" /\ connect.runs[a].call.pc = "sign") =>
            /\ connect.runs[a].call.wire[1] = "sign"
            /\ connect.runs[a].call.wire[3] = connect.runs[a].call.info.provider

\* two overlapping attempts with different wallets both await a signature,
\* the first one cancelled
C28_Witness ==
    /\ connect.runs[1].cancelled
    /\ connect.runs[1].call.pc = "sign"
    /\ connect.runs[2].call.pc = "sign"
    /\ connect.runs[1].call.info.provider # connect.runs[2].call.info.provider

\* C29: a 401 only ends the session whose API key was attached to the
\* request that received it: when the request was issued under an earlier
\* session, the 401 leaves the persisted credentials and the store alone
C29_StaleUnauthorizedIgnored ==
    [][ ( /\ query.state = "fetching"
          /\ auth.isAuthenticated
          /\ AllPresent(localStorage)
          /\ query.authorization # getAuthHeaders(localStorage)
          /\ QueryReply(401) )
        => (localStorage' = localStorage /\ auth'.isAuthenticated) ]_vars

\* C30: whenever the Add Node modal is closed it holds no active code,
\* also when a generate request started while it was open completes after
\* it was closed
C30_ClosedModalHoldsNoCode ==
    ~modal.isOpen => modal.activeCode = Null

====
